---- MODULE Spec2Model ----
(***************************************************************************)
(* Help-desk ticket tracker: the Ticket collection, the ticket router and  *)
(* the six handlers of the ticket controller.  Every handler is an async   *)
(* function; each step of the model is one awaited store operation         *)
(* together with the synchronous code that follows it up to the next       *)
(* await, so requests in different slots interleave exactly at the awaits. *)
(***************************************************************************)
EXTENDS Integers, Sequences, FiniteSets, TLC

VARIABLES
    tickets,    \* the Ticket collection, in insertion order
    now,        \* the wall clock read by new Date(), in milliseconds
    reqs        \* the requests in flight, one per slot

vars == <<tickets, now, reqs>>

-----------------------------------------------------------------------------
(* Bounds of the model *)

MaxTickets == 1
MaxReq == 2
MaxComments == 2
MaxTicks == 1
TickMs == 30000
MaxHalfHours == 52
ReportTickets == 3

Slots == 1..MaxReq

-----------------------------------------------------------------------------
(* Values *)

\* null / undefined, and a present number or date
None == <<>>
Some(x) == <<x>>

\* Principals as the authentication middleware resolves them (req.user)
Principals == {"u1", "u2", "g1", "g2", "a1"}

Role(u) ==
    IF u \in {"u1", "u2"} THEN "user"
    ELSE IF u \in {"g1", "g2"} THEN "agent"
    ELSE "admin"

\* A user id has two representations: the ObjectId stored in a document and
\* the hex string carried by req.user.id and by request bodies.  They are
\* different values: toString() and the schema cast convert between them.
ObjectId(s) == <<"ObjectId", s>>
IdString(s) == <<"String", s>>
IdToString(o) == IdString(o[2])
CastObjectId(v) == IF v # None /\ v[1] = "String" THEN ObjectId(v[2]) ELSE v

\* req.user.id
UserId(u) == IdString(u)

TicketId(i) == "t" \o ToString(i)

\* ids a request can name: those the store can hold, and "t0", which it never holds
RequestIds == {TicketId(i) : i \in 0..MaxTickets}

StatusEnum == {"open", "pending", "resolved", "closed"}
PriorityEnum == {"low", "medium", "high", "urgent"}
CategoryEnum == {"technical", "billing", "general", "feature-request", "bug"}

\* SLA window of createTicket: setHours(getHours() + 24)
SlaHours == 24
SlaMs == SlaHours * 60 * 60 * 1000

\* Math.round(ms / (1000 * 60)) for ms >= 0
RoundMinutes(ms) == (ms + 30000) \div 60000

\* String.prototype.trim on a text given as a sequence of characters
RECURSIVE TrimLeft(_)
TrimLeft(s) ==
    IF Len(s) > 0 /\ Head(s) = " " THEN TrimLeft(Tail(s)) ELSE s

RECURSIVE TrimRight(_)
TrimRight(s) ==
    IF Len(s) > 0 /\ s[Len(s)] = " " THEN TrimRight(SubSeq(s, 1, Len(s) - 1)) ELSE s

Trim(s) == TrimRight(TrimLeft(s))

\* object spread / assignment: the fields of q override those of p
Merge(p, q) ==
    [f \in (DOMAIN p) \cup (DOMAIN q) |-> IF f \in DOMAIN q THEN q[f] ELSE p[f]]

Has(b, f) == f \in DOMAIN b

-----------------------------------------------------------------------------
(* The Ticket collection *)

\* the paths of the schema that hold an ObjectId
ObjectIdPaths == {"createdBy", "assignedTo"}

\* the cast mongoose applies to a query filter or an update document
Cast(doc) ==
    [f \in DOMAIN doc |-> IF f \in ObjectIdPaths THEN CastObjectId(doc[f]) ELSE doc[f]]

\* a document matches a filter: equality on every field of the filter
Matches(t, query) == \A f \in DOMAIN query : t[f] = query[f]

\* the paths of the schema that hold a String
StringPaths == {"title", "description", "status", "priority", "category"}

\* the value of a path the stored document does not have
Undefined == "undefined"
Absent(f) == IF f \in StringPaths THEN Undefined ELSE None

\* a stored document as mongoose hands it to the application: a path with a
\* default that the stored document lacks reads as its default
Hydrate(doc) ==
    [f \in DOMAIN doc |->
        IF f = "status" /\ doc[f] = Undefined THEN "open"
        ELSE IF f = "priority" /\ doc[f] = Undefined THEN "medium"
        ELSE doc[f]]

\* Ticket.findById(id): the document, or null
FindById(id) ==
    IF \E i \in 1..Len(tickets) : tickets[i]._id = id
    THEN Some(Hydrate(tickets[CHOOSE i \in 1..Len(tickets) : tickets[i]._id = id]))
    ELSE None

IndexOf(id) == CHOOSE i \in 1..Len(tickets) : tickets[i]._id = id

\* Ticket.find(query) / Ticket.countDocuments(query): the filter is cast to the
\* schema before it is sent
Find(query) == {i \in 1..Len(tickets) : Matches(tickets[i], Cast(query))}

\* Ticket.aggregate([{ $match: query }, ...]): a pipeline is sent as written,
\* without a cast
AggregateMatch(query) == {i \in 1..Len(tickets) : Matches(tickets[i], query)}

\* { $group: { _id: '$field', count: { $sum: 1 } } }: one entry per value present
GroupCount(S, field) ==
    [v \in {tickets[i][field] : i \in S} |->
        Cardinality({i \in S : tickets[i][field] = v})]

\* schema validation of a new document (Ticket.create)
ValidDoc(d) ==
    /\ d.title # "" /\ d.description # ""
    /\ d.category \in CategoryEnum
    /\ d.priority \in PriorityEnum

\* a new document with the schema defaults applied
NewTicket(draft, user, slaDeadline) ==
    [ _id            |-> TicketId(Len(tickets) + 1),
      title          |-> draft.title,
      description    |-> draft.description,
      status         |-> "open",
      priority       |-> draft.priority,
      category       |-> draft.category,
      createdBy      |-> CastObjectId(UserId(user)),
      assignedTo     |-> None,
      slaDeadline    |-> slaDeadline,
      comments       |-> <<>>,
      resolutionTime |-> None,
      resolvedAt     |-> None,
      createdAt      |-> now ]

\* the paths of the schema an update document may set; createdAt is immutable
\* and _id cannot be changed, everything else is cast and written
SchemaPaths ==
    {"title", "description", "status", "priority", "category", "createdBy",
     "assignedTo", "slaDeadline", "comments", "resolutionTime", "resolvedAt"}

\* the paths of the schema that are required
RequiredPaths == {"title", "description", "category", "createdBy", "slaDeadline"}

\* the paths an update document removes: the keys of its $unset operator
Unset(body) == IF Has(body, "$unset") THEN DOMAIN body["$unset"] ELSE {}

\* runValidators: the enum validators of the paths the update sets, and the
\* required validators of the paths it unsets
ValidUpdate(body) ==
    /\ Has(body, "status") => body.status \in StatusEnum
    /\ Has(body, "priority") => body.priority \in PriorityEnum
    /\ Has(body, "category") => body.category \in CategoryEnum
    /\ Unset(body) \cap RequiredPaths = {}

\* Ticket.findByIdAndUpdate(id, body): the keys of the body that are not
\* operators become a $set of the schema paths among them, and a $unset of the
\* body removes its paths from the stored document
ApplyUpdate(t, body) ==
    [f \in DOMAIN t |->
        IF f \in SchemaPaths /\ f \in Unset(body) THEN Absent(f)
        ELSE IF f \in SchemaPaths /\ Has(body, f) THEN Cast(body)[f]
        ELSE t[f]]

\* the slaStatus virtual with the deadline tested before the status
SlaStatusDeadlineFirst(ticket) ==
    LET timeRemaining == ticket.slaDeadline - now
    IN  IF timeRemaining < 0 THEN "breached"
        ELSE IF ticket.status = "resolved" \/ ticket.status = "closed" THEN "completed"
        ELSE IF timeRemaining < 2 * 60 * 60 * 1000 THEN "warning"
        ELSE "normal"

\* ticketSchema.virtual('slaStatus'): the getter, evaluated when it is read
SlaStatus(ticket) ==
    IF ticket.status = "resolved" \/ ticket.status = "closed" THEN "completed"
    ELSE LET timeRemaining == ticket.slaDeadline - now
         IN  IF timeRemaining < 0 THEN "breached"
             ELSE IF timeRemaining < 2 * 60 * 60 * 1000 THEN "warning"
             ELSE "normal"

\* save() that writes the whole comments array of the loaded copy
SaveCommentsArray(stored, loaded) ==
    [stored EXCEPT !.comments = loaded.comments]

\* save() that writes every path of the loaded copy
SaveLoadedCopy(stored, loaded) == loaded

\* ticket.comments.push(comment); ticket.save() on the loaded copy: mongoose
\* saves a pushed array element as an atomic $push on the stored document, and
\* writes back no path of the loaded copy that was not modified
SaveCommentPush(stored, loaded) ==
    [stored EXCEPT !.comments = Append(@, loaded.comments[Len(loaded.comments)])]

-----------------------------------------------------------------------------
(* Requests *)

\* router (routes/tickets.js): the middleware chain and handler of the first
\* route, in registration order, that matches the method and the path segments;
\* '/:id' matches exactly one segment, whatever it is
Router(method, path) ==
    IF Len(path) = 0 /\ method = "POST" THEN <<"protect", "createTicket">>
    ELSE IF Len(path) = 0 /\ method = "GET" THEN <<"protect", "getTickets">>
    ELSE IF Len(path) = 1 /\ method = "GET" THEN <<"protect", "getTicket">>
    ELSE IF Len(path) = 1 /\ method = "PUT" THEN <<"protect", "updateTicket">>
    ELSE IF Len(path) = 2 /\ path[2] = "comments" /\ method = "POST"
        THEN <<"protect", "addComment">>
    ELSE IF path = <<"dashboard", "stats">> /\ method = "GET"
        THEN <<"protect", "admin", "getDashboardStats">>
    ELSE <<>>

\* middleware/auth.js, admin: the gate of the reporting route
Admin(user) == Role(user) \in {"admin", "agent"}

\* Denied without the test for an unassigned ticket
DeniedUnlessUnassigned(user, ticket) ==
    IF Role(user) = "user" /\ IdToString(ticket.createdBy) # UserId(user) THEN TRUE
    ELSE IF Role(user) = "agent"
        THEN ticket.assignedTo # None /\ IdToString(ticket.assignedTo) # UserId(user)
    ELSE FALSE

\* The permission check shared by getTicket, updateTicket and addComment:
\* TRUE iff the handler answers 403 for req.user on the loaded ticket
Denied(user, ticket) ==
    IF Role(user) = "user" /\ IdToString(ticket.createdBy) # UserId(user) THEN TRUE
    ELSE IF Role(user) = "agent"
        THEN LET assignedToId == IF ticket.assignedTo # None
                                 THEN IdToString(ticket.assignedTo) ELSE None
             IN  assignedToId = None \/ assignedToId # UserId(user)
    ELSE FALSE

\* ListQuery with no filter for an agent
ListQueryAgentUnfiltered(user) ==
    IF Role(user) = "user" THEN [createdBy |-> UserId(user)] ELSE <<>>

\* getTickets: the query built from the role of req.user
ListQuery(user) ==
    LET q1 == IF Role(user) = "user" THEN [createdBy |-> UserId(user)] ELSE <<>>
    IN  IF Role(user) = "agent" THEN Merge(q1, [assignedTo |-> UserId(user)]) ELSE q1

\* getDashboardStats: statsQuery
StatsQuery(user) ==
    IF Role(user) = "agent" THEN [assignedTo |-> UserId(user)] ELSE <<>>

\* a slot with no request; ticket is the document a handler holds across an
\* await, step the number of queries getDashboardStats has awaited, res the
\* status and out the payload of the response, wrote whether the request has
\* written to the collection
Idle ==
    [ pc |-> "idle", op |-> "none", method |-> "GET", path |-> <<>>,
      user |-> "a1", body |-> <<>>, ticket |-> None,
      step |-> 0, res |-> 0, out |-> None, wrote |-> FALSE ]

Reply(q, code) == [q EXCEPT !.pc = "done", !.res = code]

Init ==
    /\ tickets = <<>>
    /\ now = 0
    /\ reqs = [r \in Slots |-> Idle]

-----------------------------------------------------------------------------
(* Actions *)

\* the clock advances
Tick ==
    /\ now < MaxTicks * TickMs
    /\ now' = now + TickMs
    /\ UNCHANGED <<tickets, reqs>>

\* A request arrives in slot r: the router picks the route, the middleware of
\* the route runs, and the handler is entered
Arrive(r, method, path, user, body) ==
    /\ reqs[r].pc \in {"idle", "done"}
    /\ LET chain == Router(method, path)
           q == [Idle EXCEPT !.method = method, !.path = path, !.user = user,
                             !.body = body]
       IN  /\ chain # <<>>
           /\ reqs' = [reqs EXCEPT ![r] =
                  IF (\E i \in 1..Len(chain) : chain[i] = "admin") /\ ~Admin(user)
                  THEN Reply([q EXCEPT !.op = "admin"], 403)
                  ELSE [q EXCEPT !.op = chain[Len(chain)], !.pc = "run"]]
    /\ UNCHANGED <<tickets, now>>

\* createTicket, lines 8-15: the required fields of the body
MissingField(body) ==
    body.title = "" \/ body.description = "" \/ body.category = "" \/ body.priority = ""

\* createTicket, lines 8-19: the check of the required fields and the SLA
\* deadline, read from the clock before Ticket.create is called
CreateTicket(r) ==
    LET q == reqs[r]
        slaDeadline == now + SlaMs
    IN  /\ q.pc = "run" /\ q.op = "createTicket"
        /\ reqs' = [reqs EXCEPT ![r] =
               IF MissingField(q.body) THEN Reply(q, 400)
               ELSE [q EXCEPT !.pc = "create", !.ticket = Some([slaDeadline |-> slaDeadline])]]
        /\ UNCHANGED <<tickets, now>>

\* createTicket: Ticket.create validates the document and inserts it; the
\* timestamps of the schema set createdAt from the clock at that moment
CreateTicketInsert(r) ==
    LET q == reqs[r]
        doc == NewTicket(q.body, q.user, q.ticket[1].slaDeadline)
    IN  /\ q.pc = "create" /\ q.op = "createTicket"
        /\ IF ~ValidDoc(doc)
           THEN /\ reqs' = [reqs EXCEPT ![r] = [Reply(q, 400) EXCEPT !.ticket = None]]
                /\ UNCHANGED tickets
           ELSE /\ Len(tickets) < MaxTickets
                /\ tickets' = Append(tickets, doc)
                /\ reqs' = [reqs EXCEPT ![r] =
                       [q EXCEPT !.pc = "reread", !.ticket = Some(doc), !.wrote = TRUE]]
        /\ UNCHANGED now

\* createTicket: the populated re-read and the 201 response
CreateTicketReply(r) ==
    LET q == reqs[r]
    IN  /\ q.pc = "reread" /\ q.op = "createTicket"
        /\ reqs' = [reqs EXCEPT ![r] =
               [Reply(q, 201) EXCEPT !.ticket = None, !.out = FindById(q.ticket[1]._id)]]
        /\ UNCHANGED <<tickets, now>>

\* getTickets: the ids of the tickets of the response
GetTicketsResult(user) == {tickets[i]._id : i \in Find(ListQuery(user))}

\* getTickets
GetTickets(r) ==
    LET q == reqs[r]
    IN  /\ q.pc = "run" /\ q.op = "getTickets"
        /\ reqs' = [reqs EXCEPT ![r] = [Reply(q, 200) EXCEPT !.out = GetTicketsResult(q.user)]]
        /\ UNCHANGED <<tickets, now>>

\* getTicket: the status of the response
GetTicketStatus(user, id) ==
    LET ticket == FindById(id)
    IN  IF ticket = None THEN 404
        ELSE IF Denied(user, ticket[1]) THEN 403
        ELSE 200

\* getTicket
GetTicket(r) ==
    LET q == reqs[r]
    IN  /\ q.pc = "run" /\ q.op = "getTicket"
        /\ reqs' = [reqs EXCEPT ![r] = Reply(q, GetTicketStatus(q.user, q.path[1]))]
        /\ UNCHANGED <<tickets, now>>

\* updateTicket, lines 157 and 162: the status is being changed to resolved
Resolving(body, ticket) ==
    Has(body, "status") /\ body.status = "resolved" /\ ticket.status # "resolved"

\* updateTicket, lines 156-166: the resolution fields added to req.body;
\* resolvedAt is the new Date() of line 158 and resolvedTime that of line 164
ResolutionPatch(body, ticket, resolvedAt, resolvedTime) ==
    IF Resolving(body, ticket)
    THEN Merge(body, [resolvedAt |-> Some(resolvedAt),
                      resolutionTime |-> Some(RoundMinutes(resolvedTime - ticket.createdAt))])
    ELSE body

\* the values a second new Date() can give after one that gave now: the
\* same instant, or the next one when the clock has advanced in between
LaterReads == {now} \cup (IF now < MaxTicks * TickMs THEN {now + TickMs} ELSE {})

\* updateTicket, up to the call of findByIdAndUpdate
UpdateTicketRead(r) ==
    LET q == reqs[r]
        ticket == FindById(q.path[1])
    IN  /\ q.pc = "run" /\ q.op = "updateTicket"
        /\ \E resolvedTime \in LaterReads :
             /\ resolvedTime # now =>
                   (ticket # None /\ ~Denied(q.user, ticket[1]) /\ Resolving(q.body, ticket[1]))
             /\ reqs' = [reqs EXCEPT ![r] =
                    IF ticket = None THEN Reply(q, 404)
                    ELSE IF Denied(q.user, ticket[1]) THEN Reply(q, 403)
                    ELSE [q EXCEPT !.pc = "write",
                            !.body = ResolutionPatch(q.body, ticket[1], now, resolvedTime)]]
             /\ now' = resolvedTime
        /\ UNCHANGED tickets

\* UpdateTicketWrite with the validation run on the document after the write
UpdateTicketWriteUnvalidated(r) ==
    LET q == reqs[r]
        i == IndexOf(q.path[1])
    IN  /\ q.pc = "write" /\ q.op = "updateTicket"
        /\ tickets' = [tickets EXCEPT ![i] = ApplyUpdate(@, q.body)]
        /\ reqs' = [reqs EXCEPT ![r] =
               [Reply(q, IF ValidUpdate(q.body) THEN 200 ELSE 400) EXCEPT !.wrote = TRUE]]
        /\ UNCHANGED now

\* updateTicket: findByIdAndUpdate with runValidators, and the response, which
\* carries the document as it is after the update ({ new: true })
UpdateTicketWrite(r) ==
    LET q == reqs[r]
        i == IndexOf(q.path[1])
    IN  /\ q.pc = "write" /\ q.op = "updateTicket"
        /\ IF ~ValidUpdate(q.body)
           THEN /\ reqs' = [reqs EXCEPT ![r] = Reply(q, 400)]
                /\ UNCHANGED tickets
           ELSE /\ tickets' = [tickets EXCEPT ![i] = ApplyUpdate(@, q.body)]
                /\ reqs' = [reqs EXCEPT ![r] =
                       [Reply(q, 200) EXCEPT !.wrote = TRUE,
                                             !.out = Some(Hydrate(ApplyUpdate(tickets[i], q.body)))]]
        /\ UNCHANGED now

\* addComment, lines 222-228: the comment pushed on the loaded ticket
PushComment(ticket, user, text, isInternal) ==
    [ticket EXCEPT !.comments =
        Append(@, [user |-> CastObjectId(UserId(user)), text |-> Trim(text),
                   isInternal |-> isInternal])]

\* addComment, up to the call of ticket.save()
AddCommentRead(r) ==
    LET q == reqs[r]
        text == q.body.text
        isInternal == IF Has(q.body, "isInternal") THEN q.body.isInternal ELSE FALSE
        ticket == FindById(q.path[1])
    IN  /\ q.pc = "run" /\ q.op = "addComment"
        /\ reqs' = [reqs EXCEPT ![r] =
               IF text = <<>> \/ Trim(text) = <<>> THEN Reply(q, 400)
               ELSE IF ticket = None THEN Reply(q, 404)
               ELSE IF Denied(q.user, ticket[1]) THEN Reply(q, 403)
               ELSE [q EXCEPT !.pc = "save",
                       !.ticket = Some(PushComment(ticket[1], q.user, text, isInternal))]]
        /\ UNCHANGED <<tickets, now>>

\* addComment: ticket.save()
AddCommentSave(r) ==
    LET q == reqs[r]
        i == IndexOf(q.path[1])
    IN  /\ q.pc = "save" /\ q.op = "addComment"
        /\ tickets' = [tickets EXCEPT ![i] = SaveCommentPush(@, q.ticket[1])]
        /\ reqs' = [reqs EXCEPT ![r] = [q EXCEPT !.pc = "reread", !.wrote = TRUE]]
        /\ UNCHANGED now

\* addComment: the populated re-read and the response
AddCommentReply(r) ==
    LET q == reqs[r]
    IN  /\ q.pc = "reread" /\ q.op = "addComment"
        /\ reqs' = [reqs EXCEPT ![r] = [Reply(q, 200) EXCEPT !.ticket = None]]
        /\ UNCHANGED <<tickets, now>>

-----------------------------------------------------------------------------
(* getDashboardStats *)

WeekMs == 7 * 24 * 60 * 60 * 1000
WarningMs == 2 * 60 * 60 * 1000

RECURSIVE SumResolutionTime(_)
SumResolutionTime(S) ==
    IF S = {} THEN 0
    ELSE LET i == CHOOSE j \in S : TRUE
         IN  tickets[i].resolutionTime[1] + SumResolutionTime(S \ {i})

\* Math.round(a / b) for a >= 0, b > 0
RoundDiv(a, b) == (2 * a + b) \div (2 * b)

\* AvgResolutionTime over every resolved ticket that has a resolution time
AvgResolutionTimeAllResolved(query) ==
    LET S == {i \in Find(Merge(query, [status |-> "resolved"])) :
                 tickets[i].resolutionTime # None}
    IN  IF Cardinality(S) > 0 THEN RoundDiv(SumResolutionTime(S), Cardinality(S)) ELSE 0

\* lines 265-273 and 380: the rounded mean of the resolution times
AvgResolutionTime(query) ==
    LET S == {i \in Find(Merge(query, [status |-> "resolved"])) :
                 tickets[i].resolutionTime # None /\ tickets[i].resolutionTime[1] > 0}
    IN  IF Cardinality(S) > 0 THEN RoundDiv(SumResolutionTime(S), Cardinality(S)) ELSE 0

\* lines 318-338: SLA compliance of the resolved and closed tickets
SlaCompliance(query) ==
    LET S == {i \in Find(query) : tickets[i].status \in {"resolved", "closed"}
                                   /\ tickets[i].resolvedAt # None}
        ok == {i \in S : tickets[i].resolvedAt[1] <= tickets[i].slaDeadline}
    IN  [ slaCompliantTickets |-> Cardinality(ok),
          slaComplianceRate |->
              IF Cardinality(S) > 0
              THEN RoundDiv(Cardinality(ok) * 100, Cardinality(S)) ELSE 0 ]

\* lines 341-367: the current SLA status of the tickets not resolved or closed
SlaBreakdown(query) ==
    LET S == {i \in Find(query) : tickets[i].status \notin {"resolved", "closed"}}
        timeRemaining(i) == tickets[i].slaDeadline - now
    IN  [ slaStatus |->
          [ breached |-> Cardinality({i \in S : timeRemaining(i) < 0}),
            warning |-> Cardinality({i \in S : timeRemaining(i) >= 0
                                               /\ timeRemaining(i) < WarningMs}),
            normal |-> Cardinality({i \in S : timeRemaining(i) >= WarningMs}) ] ]

\* the number of awaited queries of getDashboardStats
StatsQueries == 12

\* the fields the k-th awaited query of getDashboardStats adds to the report
StatsStep(k, query) ==
    CASE k = 1 -> [totalTickets |-> Cardinality(Find(query))]
      [] k = 2 -> [openTickets |-> Cardinality(Find(Merge(query, [status |-> "open"])))]
      [] k = 3 -> [pendingTickets |-> Cardinality(Find(Merge(query, [status |-> "pending"])))]
      [] k = 4 -> [resolvedTickets |-> Cardinality(Find(Merge(query, [status |-> "resolved"])))]
      [] k = 5 -> [closedTickets |-> Cardinality(Find(Merge(query, [status |-> "closed"])))]
      [] k = 6 -> [avgResolutionTime |-> AvgResolutionTime(query)]
      [] k = 7 -> [priorityStats |-> GroupCount(AggregateMatch(query), "priority")]
      [] k = 8 -> [categoryStats |-> GroupCount(AggregateMatch(query), "category")]
      [] k = 9 -> [statusStats |-> GroupCount(AggregateMatch(query), "status")]
      [] k = 10 -> [recentTickets |->
                      Cardinality({i \in Find(query) : tickets[i].createdAt >= now - WeekMs})]
      [] k = 11 -> SlaCompliance(query)
      [] OTHER -> SlaBreakdown(query)

\* getDashboardStats: one awaited query, and after the last one the response
GetDashboardStats(r) ==
    LET q == reqs[r]
        k == q.step + 1
        out == Merge(q.out, StatsStep(k, StatsQuery(q.user)))
    IN  /\ q.pc = "run" /\ q.op = "getDashboardStats"
        /\ reqs' = [reqs EXCEPT ![r] =
               IF k < StatsQueries THEN [q EXCEPT !.out = out, !.step = k]
               ELSE [Reply(q, 200) EXCEPT !.out = out]]
        /\ UNCHANGED <<tickets, now>>

-----------------------------------------------------------------------------
(* Inputs *)

GoodDraft == [title |-> "T", description |-> "D", category |-> "bug", priority |-> "high"]

Drafts ==
    { GoodDraft,
      [GoodDraft EXCEPT !.title = ""],
      [GoodDraft EXCEPT !.category = "other"] }

Texts == { <<>>, <<" ">>, <<" ", "x", " ">> }

CommentBodies == { [text |-> t] : t \in Texts }

\* update bodies: a status of the enum or outside it, an assignee, and bodies
\* that name the stored fields the handler computes
StatusPatches == { [status |-> "resolved"], [status |-> "open"], [status |-> "archived"] }
AssignPatches == { [assignedTo |-> IdString("g1")], [assignedTo |-> IdString("g2")] }
FieldPatches == { [slaDeadline |-> 0], [resolutionTime |-> Some(5)] }

\* the requests a client can send
CreateRequests(Users, D) ==
    [method : {"POST"}, path : {<<>>}, user : Users, body : D]
ListRequests(Users) ==
    [method : {"GET"}, path : {<<>>}, user : Users, body : {<<>>}]
GetRequests(Users, Ids) ==
    [method : {"GET"}, path : {<<id>> : id \in Ids}, user : Users, body : {<<>>}]
UpdateRequests(Users, Ids, P) ==
    [method : {"PUT"}, path : {<<id>> : id \in Ids}, user : Users, body : P]
CommentRequests(Users, Ids, C) ==
    [method : {"POST"}, path : {<<id, "comments">> : id \in Ids}, user : Users, body : C]
StatsRequests(Users) ==
    [method : {"GET"}, path : {<<"dashboard", "stats">>}, user : Users, body : {<<>>}]

\* the caps that keep the store finite
Running(op) == Cardinality({r \in Slots : reqs[r].op = op /\ reqs[r].pc \notin {"idle", "done"}})

RunningOn(op, id) ==
    Cardinality({r \in Slots : reqs[r].op = op /\ reqs[r].pc \notin {"idle", "done"}
                               /\ reqs[r].path[1] = id})

WithinBounds(req) ==
    LET chain == Router(req.method, req.path)
        op == chain[Len(chain)]
    IN  /\ op = "createTicket" => Len(tickets) + Running(op) < MaxTickets
        /\ (op = "addComment" /\ FindById(req.path[1]) # None) =>
              Len(FindById(req.path[1])[1].comments) + RunningOn(op, req.path[1]) < MaxComments

Request(r, Rs) ==
    \E req \in Rs :
        /\ WithinBounds(req)
        /\ Arrive(r, req.method, req.path, req.user, req.body)

-----------------------------------------------------------------------------
(* Spec: the ticket lifecycle.  The creating user and the administrator send
   status updates of one ticket in every slot while the clock advances. *)

StatusRequests ==
    CreateRequests({"u1"}, {GoodDraft})
    \cup UpdateRequests({"u1", "a1"}, RequestIds, StatusPatches)

Next ==
    \/ Tick
    \/ \E r \in Slots :
        \/ Request(r, StatusRequests)
        \/ CreateTicket(r) \/ CreateTicketInsert(r) \/ CreateTicketReply(r)
        \/ UpdateTicketRead(r) \/ UpdateTicketWrite(r)

Spec == Init /\ [][Next]_vars

-----------------------------------------------------------------------------
(* SpecSerial: the same requests, served one at a time in slot 1. *)

NextSerial ==
    \/ Tick
    \/ Request(1, StatusRequests)
    \/ CreateTicket(1) \/ CreateTicketInsert(1) \/ CreateTicketReply(1)
    \/ UpdateTicketRead(1) \/ UpdateTicketWrite(1)

SpecSerial == Init /\ [][NextSerial]_vars

-----------------------------------------------------------------------------
(* SpecPatch: update bodies that also name stored fields the handlers
   compute, served one at a time in slot 1. *)

PatchRequests ==
    StatusRequests \cup UpdateRequests({"u1", "a1"}, RequestIds, FieldPatches)

NextPatch ==
    \/ Tick
    \/ Request(1, PatchRequests)
    \/ CreateTicket(1) \/ CreateTicketInsert(1) \/ CreateTicketReply(1)
    \/ UpdateTicketRead(1) \/ UpdateTicketWrite(1)

SpecPatch == Init /\ [][NextPatch]_vars

-----------------------------------------------------------------------------
(* SpecAccess: every principal sends every single-ticket and listing request
   in slot 1, while in the other slots the administrator reassigns tickets. *)

AccessRequests ==
    CreateRequests({"u1", "g1"}, Drafts)
    \cup ListRequests(Principals)
    \cup GetRequests(Principals, RequestIds)
    \cup UpdateRequests(Principals, RequestIds, AssignPatches \cup {[status |-> "archived"]})
    \cup CommentRequests(Principals, RequestIds, CommentBodies)

AssignRequests == UpdateRequests({"a1"}, RequestIds, AssignPatches)

NextAccess ==
    \E r \in Slots :
        \/ Request(r, IF r = 1 THEN AccessRequests ELSE AssignRequests)
        \/ CreateTicket(r) \/ CreateTicketInsert(r) \/ CreateTicketReply(r)
        \/ GetTickets(r)
        \/ GetTicket(r)
        \/ UpdateTicketRead(r) \/ UpdateTicketWrite(r)
        \/ AddCommentRead(r) \/ AddCommentSave(r) \/ AddCommentReply(r)

SpecAccess == Init /\ [][NextAccess]_vars

-----------------------------------------------------------------------------
(* SpecComments: the creating user and the administrator comment on one
   ticket in every slot. *)

CommentersBodies ==
    { [text |-> <<"x">>], [text |-> <<" ", "x", " ">>, isInternal |-> TRUE] }

CommentersRequests ==
    CreateRequests({"u1"}, {GoodDraft})
    \cup CommentRequests({"u1", "a1"}, RequestIds, CommentersBodies)

NextComments ==
    \E r \in Slots :
        \/ Request(r, CommentersRequests)
        \/ CreateTicket(r) \/ CreateTicketInsert(r) \/ CreateTicketReply(r)
        \/ AddCommentRead(r) \/ AddCommentSave(r) \/ AddCommentReply(r)

SpecComments == Init /\ [][NextComments]_vars

-----------------------------------------------------------------------------
(* SpecStats: tickets are created, assigned and resolved while a user, an
   agent and the administrator ask for the dashboard statistics. *)

StatsScenarioRequests ==
    CreateRequests({"u1"}, {GoodDraft})
    \cup UpdateRequests({"a1"}, RequestIds,
                        {[assignedTo |-> IdString("g1")], [status |-> "resolved"]})
    \cup StatsRequests({"u1", "g1", "a1"})

NextStats ==
    \E r \in Slots :
        \/ Request(r, StatsScenarioRequests)
        \/ CreateTicket(r) \/ CreateTicketInsert(r) \/ CreateTicketReply(r)
        \/ UpdateTicketRead(r) \/ UpdateTicketWrite(r)
        \/ GetDashboardStats(r)

SpecStats == Init /\ [][NextStats]_vars

-----------------------------------------------------------------------------
(* SpecOwner: the creating user comments on the ticket and sends update
   bodies that name the comments, the creator and the assignee, one request
   at a time in slot 1. *)

OwnerPatches ==
    { [comments |-> <<>>], [createdBy |-> IdString("u2")], [assignedTo |-> IdString("g1")] }

OwnerRequests ==
    CreateRequests({"u1"}, {GoodDraft})
    \cup CommentRequests({"u1"}, RequestIds, CommentersBodies)
    \cup UpdateRequests({"u1"}, RequestIds, OwnerPatches)

NextOwner ==
    \/ Request(1, OwnerRequests)
    \/ CreateTicket(1) \/ CreateTicketInsert(1) \/ CreateTicketReply(1)
    \/ UpdateTicketRead(1) \/ UpdateTicketWrite(1)
    \/ AddCommentRead(1) \/ AddCommentSave(1) \/ AddCommentReply(1)

SpecOwner == Init /\ [][NextOwner]_vars

-----------------------------------------------------------------------------
(* SpecFrame: the creating user comments on the ticket while the administrator
   resolves and reopens it, in every slot. *)

FrameRequests ==
    CreateRequests({"u1"}, {GoodDraft})
    \cup CommentRequests({"u1"}, RequestIds, {[text |-> <<"x">>]})
    \cup UpdateRequests({"a1"}, RequestIds, {[status |-> "resolved"], [status |-> "open"]})

NextFrame ==
    \E r \in Slots :
        \/ Request(r, FrameRequests)
        \/ CreateTicket(r) \/ CreateTicketInsert(r) \/ CreateTicketReply(r)
        \/ UpdateTicketRead(r) \/ UpdateTicketWrite(r)
        \/ AddCommentRead(r) \/ AddCommentSave(r) \/ AddCommentReply(r)

SpecFrame == Init /\ [][NextFrame]_vars

-----------------------------------------------------------------------------
(* SpecCreate: a user and an agent send drafts, complete, incomplete, and
   naming fields the handler sets itself, while the clock advances. *)

\* a complete draft that also names the fields createTicket does not take from
\* the body
FullDraft ==
    Merge(GoodDraft, [status |-> "closed", assignedTo |-> IdString("g1"),
                      createdBy |-> IdString("u2"), slaDeadline |-> 0,
                      resolvedAt |-> Some(0), resolutionTime |-> Some(5)])

CreateDrafts ==
    Drafts \cup { FullDraft,
                  [GoodDraft EXCEPT !.description = ""],
                  [GoodDraft EXCEPT !.category = ""],
                  [GoodDraft EXCEPT !.priority = ""] }

NextCreate ==
    \/ Tick
    \/ \E r \in Slots :
        \/ Request(r, CreateRequests({"u1", "g1"}, CreateDrafts))
        \/ CreateTicket(r) \/ CreateTicketInsert(r) \/ CreateTicketReply(r)

SpecCreate == Init /\ [][NextCreate]_vars

-----------------------------------------------------------------------------
(* SpecSla: a ticket is created, resolved or closed by the administrator, and
   reported on, one request at a time in slot 1, while the clock advances in
   half hours, from the creation of the ticket to past its SLA deadline. *)

HalfHourMs == 30 * 60 * 1000

\* the clock advances by half an hour
TickHalfHour ==
    /\ Len(tickets) >= 1
    /\ now + HalfHourMs <= MaxHalfHours * HalfHourMs
    /\ now' = now + HalfHourMs
    /\ UNCHANGED <<tickets, reqs>>

SlaRequests ==
    CreateRequests({"u1"}, {GoodDraft})
    \cup UpdateRequests({"a1"}, RequestIds, {[status |-> "resolved"], [status |-> "closed"]})
    \cup StatsRequests({"a1"})

NextSla ==
    \/ TickHalfHour
    \/ Request(1, SlaRequests)
    \/ CreateTicket(1) \/ CreateTicketInsert(1) \/ CreateTicketReply(1)
    \/ UpdateTicketRead(1) \/ UpdateTicketWrite(1)
    \/ GetDashboardStats(1)

SpecSla == Init /\ [][NextSla]_vars

-----------------------------------------------------------------------------
(* SpecReport: the store holds tickets that were created at time 0, assigned
   to an agent, and left open, resolved at once, resolved after 30 or 31
   minutes, or resolved after 30 minutes and then closed; an agent and the
   administrator ask for the statistics, one request at a time in slot 1. *)

\* a stored ticket that was resolved minutes after it was created
ResolvedTicket(t, status, minutes) ==
    [t EXCEPT !.status = status, !.resolvedAt = Some(t.createdAt + minutes * 60000),
              !.resolutionTime = Some(RoundMinutes(minutes * 60000))]

\* the documents ticket i can be, as createTicket and updateTicket store them
StoredTickets(i) ==
    LET created == [ _id |-> TicketId(i), title |-> "T", description |-> "D",
                     status |-> "open", priority |-> "high", category |-> "bug",
                     createdBy |-> ObjectId("u1"), assignedTo |-> None,
                     slaDeadline |-> SlaMs, comments |-> <<>>,
                     resolutionTime |-> None, resolvedAt |-> None, createdAt |-> 0 ]
    IN  UNION { LET t == [created EXCEPT !.assignedTo = ObjectId(g)]
                IN  { t, ResolvedTicket(t, "resolved", 0), ResolvedTicket(t, "resolved", 30),
                      ResolvedTicket(t, "resolved", 31), ResolvedTicket(t, "closed", 30) }
                : g \in {"g1", "g2"} }

InitReport ==
    /\ tickets \in { ts \in [1..ReportTickets -> UNION {StoredTickets(i) : i \in 1..ReportTickets}] :
                        \A i \in 1..ReportTickets : ts[i] \in StoredTickets(i) }
    /\ now = 31 * 60000
    /\ reqs = [r \in Slots |-> Idle]

NextReport ==
    \/ Request(1, StatsRequests({"g1", "a1"}))
    \/ GetDashboardStats(1)

SpecReport == InitReport /\ [][NextReport]_vars

-----------------------------------------------------------------------------
(* SpecStatus: the creating user and the administrator send updates whose
   body sets the status, to a value of the enum or to another one, or removes
   it, one request at a time in slot 1. *)

StatusBodies ==
    { [status |-> st] : st \in StatusEnum \cup {"archived", "Open", ""} }
    \cup { "$unset" :> [status |-> ""] }

NextStatus ==
    \/ Request(1, CreateRequests({"u1"}, {GoodDraft})
                  \cup UpdateRequests({"u1", "a1"}, RequestIds, StatusBodies))
    \/ CreateTicket(1) \/ CreateTicketInsert(1) \/ CreateTicketReply(1)
    \/ UpdateTicketRead(1) \/ UpdateTicketWrite(1)

SpecStatus == Init /\ [][NextStatus]_vars

-----------------------------------------------------------------------------
(* Access control *)

SingleTicketOps == {"getTicket", "updateTicket", "addComment"}

\* the access rule of the specification, on the stored document
Authorized(u, t) ==
    \/ Role(u) = "admin"
    \/ Role(u) = "user" /\ t.createdBy = ObjectId(u)
    \/ Role(u) = "agent" /\ t.assignedTo = ObjectId(u)

\* slot r takes the step in which its single-ticket handler loads the ticket
Loads(r) ==
    /\ reqs[r].pc = "run" /\ reqs[r].op \in SingleTicketOps
    /\ reqs'[r] # reqs[r]

\* the text of a comment request is rejected before the ticket is loaded
BlankComment(q) == q.op = "addComment" /\ Trim(q.body.text) = <<>>

\* C1: on an existing ticket, get, update and comment go ahead iff the principal
\* is an admin, the creating user or the assigned agent; every other principal
\* (an agent on an unassigned ticket included) is answered 403 and nothing is
\* written.  A comment request is meant with a text that passes the validation
\* of line 193, which runs before the ticket is loaded.
C1_AccessIffAuthorized ==
    [][\A r \in Slots :
         (Loads(r) /\ FindById(reqs[r].path[1]) # None /\ ~BlankComment(reqs[r])) =>
            LET q == reqs[r]
                t == FindById(q.path[1])[1]
            IN  IF Authorized(q.user, t)
                THEN \/ q.op = "getTicket" /\ reqs'[r].pc = "done" /\ reqs'[r].res = 200
                     \/ q.op = "updateTicket" /\ reqs'[r].pc = "write"
                     \/ q.op = "addComment" /\ reqs'[r].pc = "save"
                ELSE /\ reqs'[r].pc = "done" /\ reqs'[r].res = 403
                     /\ tickets' = tickets
      ]_vars

\* an agent was denied a comment on a ticket that is assigned to nobody, and
\* the creating user was let through to the write of an update
C1_Witness ==
    /\ reqs[1].op = "addComment" /\ reqs[1].pc = "done" /\ reqs[1].res = 403
    /\ Role(reqs[1].user) = "agent"
    /\ FindById(reqs[1].path[1]) # None
    /\ FindById(reqs[1].path[1])[1].assignedTo = None

\* C2: every ticket of the list a principal gets is a ticket the same
\* principal can get by id in the same state of the store
C2_ListedAreGettable ==
    \A u \in Principals :
        \A id \in GetTicketsResult(u) : GetTicketStatus(u, id) = 200

\* an agent got a list that holds a ticket; the creating user lists it too,
\* another user lists nothing
C2_Witness ==
    /\ reqs[1].op = "getTickets" /\ reqs[1].pc = "done"
    /\ Role(reqs[1].user) = "agent"
    /\ reqs[1].out # {}
    /\ reqs[1].out = GetTicketsResult(reqs[1].user)
    /\ GetTicketsResult("u2") = {}
    /\ GetTicketsResult("u1") # {}

-----------------------------------------------------------------------------
(* The ticket lifecycle *)

\* slot r takes the step in which findByIdAndUpdate is applied
Writes(r) ==
    /\ reqs[r].pc = "write" /\ reqs[r].op = "updateTicket"
    /\ reqs'[r] # reqs[r]

\* C3: once resolvedAt and resolutionTime are set, no update changes either
C3_ResolutionSetOnce ==
    [][\A i \in 1..Len(tickets) :
         (tickets[i].resolvedAt # None /\ tickets[i].resolutionTime # None) =>
            /\ tickets'[i].resolvedAt = tickets[i].resolvedAt
            /\ tickets'[i].resolutionTime = tickets[i].resolutionTime
      ]_vars

\* C4: no step changes the slaDeadline of a ticket
C4_SlaDeadlineFixed ==
    [][\A i \in 1..Len(tickets) : tickets'[i].slaDeadline = tickets[i].slaDeadline]_vars

\* C5: resolutionTime and resolvedAt are null together, a new ticket has both
\* null, and resolvedAt becomes non-null exactly in the steps that move the
\* status of the ticket into resolved
C5_ResolutionFieldsTogether ==
    [][\A i \in 1..Len(tickets') :
         /\ tickets'[i].resolutionTime = None <=> tickets'[i].resolvedAt = None
         /\ i > Len(tickets) =>
               tickets'[i].resolvedAt = None /\ tickets'[i].status # "resolved"
         /\ (i <= Len(tickets) /\ tickets[i].resolvedAt = None) =>
               (tickets'[i].resolvedAt # None <=>
                  (tickets[i].status # "resolved" /\ tickets'[i].status = "resolved"))
      ]_vars

\* C7: an update that writes resolvedAt or resolutionTime is applied to a
\* ticket whose status is not resolved at the moment of the write
C7_ResolveDecidedAtWrite ==
    [][\A r \in Slots :
         (Writes(r) /\ (Has(reqs[r].body, "resolvedAt") \/ Has(reqs[r].body, "resolutionTime"))
                    /\ tickets' # tickets) =>
            tickets[IndexOf(reqs[r].path[1])].status # "resolved"
      ]_vars

-----------------------------------------------------------------------------
(* Errors *)

Errors == {400, 403, 404}

\* slot r is answered in this step
Answered(r) == reqs'[r] # reqs[r] /\ reqs'[r].pc = "done"

\* C8: a create, update or comment request that is answered with an error has
\* written nothing: the step that answers it leaves the store as it is, and no
\* earlier step of the request wrote
C8_ErrorsLeaveStore ==
    [][\A r \in Slots :
         (Answered(r) /\ reqs'[r].op \in {"createTicket", "updateTicket", "addComment"}
                      /\ reqs'[r].res \in Errors) =>
            tickets' = tickets /\ ~reqs'[r].wrote
      ]_vars

\* an update with a status outside the enum was rejected by the validators of
\* the write, and a ticket is stored
C8_Witness ==
    /\ reqs[1].op = "updateTicket" /\ reqs[1].pc = "done" /\ reqs[1].res = 400
    /\ reqs[1].body = [status |-> "archived"]
    /\ FindById(reqs[1].path[1]) # None
    /\ FindById(reqs[1].path[1])[1].status = "open"

\* C9: get, update and comment on an id that no ticket has are answered 404,
\* whatever the role and the body
C9_NotFoundFirst ==
    \A r \in Slots :
        (reqs[r].pc = "done" /\ reqs[r].op \in SingleTicketOps
            /\ FindById(reqs[r].path[1]) = None) =>
        reqs[r].res = 404

-----------------------------------------------------------------------------
(* Comments *)

IsPrefix(s, t) == Len(s) <= Len(t) /\ SubSeq(t, 1, Len(s)) = s

\* slot r takes the step in which ticket.save() is applied
Saves(r) ==
    /\ reqs[r].pc = "save" /\ reqs[r].op = "addComment"
    /\ reqs'[r] # reqs[r]

\* the comment a request asks for
CommentOf(q) ==
    [ user |-> ObjectId(q.user), text |-> Trim(q.body.text),
      isInternal |-> Has(q.body, "isInternal") /\ q.body.isInternal ]

\* C6: every step keeps the comments a ticket has, in order, and the save of a
\* comment request adds exactly its comment after those stored at that moment,
\* also when another comment was saved since the request loaded the ticket
C6_ConcurrentCommentsKept ==
    [][/\ \A i \in 1..Len(tickets) : IsPrefix(tickets[i].comments, tickets'[i].comments)
       /\ \A r \in Slots :
            Saves(r) =>
               LET i == IndexOf(reqs[r].path[1])
               IN  tickets'[i].comments = Append(tickets[i].comments, CommentOf(reqs[r]))
      ]_vars

\* slot 2 loaded the ticket when it had no comment, slot 1 saved its comment
\* first, and after the save of slot 2 the ticket has both
C6_Witness ==
    /\ MaxReq >= 2
    /\ reqs[1].op = "addComment" /\ reqs[1].pc \in {"reread", "done"} /\ reqs[1].wrote
    /\ reqs[2].op = "addComment" /\ reqs[2].pc = "reread"
    /\ reqs[2].path = reqs[1].path
    /\ Len(reqs[2].ticket[1].comments) = 1
    /\ FindById(reqs[2].path[1])[1].comments = <<CommentOf(reqs[1]), CommentOf(reqs[2])>>

-----------------------------------------------------------------------------
(* Reporting *)

\* the tickets a report of principal u is about
Scope(u) ==
    IF Role(u) = "agent"
    THEN {i \in 1..Len(tickets) : tickets[i].assignedTo = ObjectId(u)}
    ELSE 1..Len(tickets)

WithStatus(S, st) == {i \in S : tickets[i].status = st}

\* the fields of the k-th query of a report computed over the tickets S
ReportOver(k, S) ==
    CASE k = 1 -> [totalTickets |-> Cardinality(S)]
      [] k = 2 -> [openTickets |-> Cardinality(WithStatus(S, "open"))]
      [] k = 3 -> [pendingTickets |-> Cardinality(WithStatus(S, "pending"))]
      [] k = 4 -> [resolvedTickets |-> Cardinality(WithStatus(S, "resolved"))]
      [] k = 5 -> [closedTickets |-> Cardinality(WithStatus(S, "closed"))]
      [] k = 6 ->
            LET R == {i \in WithStatus(S, "resolved") :
                         tickets[i].resolutionTime # None /\ tickets[i].resolutionTime[1] > 0}
            IN  [avgResolutionTime |->
                    IF R = {} THEN 0 ELSE RoundDiv(SumResolutionTime(R), Cardinality(R))]
      [] k = 7 -> [priorityStats |-> GroupCount(S, "priority")]
      [] k = 8 -> [categoryStats |-> GroupCount(S, "category")]
      [] k = 9 -> [statusStats |-> GroupCount(S, "status")]
      [] k = 10 -> [recentTickets |->
                      Cardinality({i \in S : tickets[i].createdAt >= now - WeekMs})]
      [] k = 11 ->
            LET R == {i \in WithStatus(S, "resolved") \cup WithStatus(S, "closed") :
                         tickets[i].resolvedAt # None}
                ok == {i \in R : tickets[i].resolvedAt[1] <= tickets[i].slaDeadline}
            IN  [ slaCompliantTickets |-> Cardinality(ok),
                  slaComplianceRate |->
                      IF R = {} THEN 0 ELSE RoundDiv(Cardinality(ok) * 100, Cardinality(R)) ]
      [] OTHER ->
            LET R == S \ (WithStatus(S, "resolved") \cup WithStatus(S, "closed"))
            IN  [ slaStatus |->
                  [ breached |-> Cardinality({i \in R : tickets[i].slaDeadline < now}),
                    warning |-> Cardinality({i \in R : tickets[i].slaDeadline >= now
                                  /\ tickets[i].slaDeadline - now < WarningMs}),
                    normal |-> Cardinality({i \in R : tickets[i].slaDeadline - now >= WarningMs}) ] ]

\* a stats request arrives in slot r in this step
StatsArrives(r) ==
    /\ reqs[r].pc \in {"idle", "done"} /\ reqs'[r] # reqs[r]
    /\ reqs'[r].method = "GET" /\ reqs'[r].path = <<"dashboard", "stats">>

\* slot r takes a step of getDashboardStats
StatsSteps(r) ==
    /\ reqs[r].pc = "run" /\ reqs[r].op = "getDashboardStats"
    /\ reqs'[r] # reqs[r]

\* C10: a stats request of a user is answered 403; one of an agent or an admin
\* enters getDashboardStats, every field of its report is computed over the
\* tickets assigned to the agent, or over all tickets for an admin, and it is
\* answered 200
C10_StatsByRole ==
    [][\A r \in Slots :
         /\ StatsArrives(r) =>
               IF Role(reqs'[r].user) = "user"
               THEN reqs'[r].pc = "done" /\ reqs'[r].res = 403
               ELSE reqs'[r].pc = "run" /\ reqs'[r].op = "getDashboardStats"
         /\ StatsSteps(r) =>
               LET k == reqs[r].step + 1
               IN  /\ reqs'[r].out =
                          Merge(reqs[r].out, ReportOver(k, Scope(reqs[r].user)))
                   /\ k = StatsQueries => reqs'[r].pc = "done" /\ reqs'[r].res = 200
      ]_vars

\* the count a status distribution gives for status st
CountIn(stats, st) == IF st \in DOMAIN stats THEN stats[st] ELSE 0

\* slot r holds the report of a stats request that was answered
Reported(r) ==
    reqs[r].op = "getDashboardStats" /\ reqs[r].pc = "done" /\ reqs[r].res = 200

\* C11: in every report the total is the sum of the four counts by status, the
\* status distribution gives the same four counts, and the SLA breakdown counts
\* every open or pending ticket once
C11_ConsistentReport ==
    \A r \in Slots :
        Reported(r) =>
            LET o == reqs[r].out
            IN  /\ o.totalTickets =
                      o.openTickets + o.pendingTickets + o.resolvedTickets + o.closedTickets
                /\ CountIn(o.statusStats, "open") = o.openTickets
                /\ CountIn(o.statusStats, "pending") = o.pendingTickets
                /\ CountIn(o.statusStats, "resolved") = o.resolvedTickets
                /\ CountIn(o.statusStats, "closed") = o.closedTickets
                /\ o.slaStatus.normal + o.slaStatus.warning + o.slaStatus.breached =
                      o.openTickets + o.pendingTickets

-----------------------------------------------------------------------------
(* Authorization at the moment of the write *)

\* C20: the write of an update or of a comment requested by an agent or a user
\* changes the ticket only if that principal is authorized on the ticket as it
\* is stored at the moment of the write
C20_AuthorizedAtWrite ==
    [][\A r \in Slots :
         ((Writes(r) \/ Saves(r)) /\ Role(reqs[r].user) \in {"agent", "user"}
                                  /\ tickets' # tickets) =>
            Authorized(reqs[r].user, tickets[IndexOf(reqs[r].path[1])])
      ]_vars

-----------------------------------------------------------------------------
(* The fields of a ticket that only some operations may change *)

\* C12: every step keeps the comments every ticket has, in order: the comments
\* before the step are a prefix of the comments after it
C12_CommentsAppendOnly ==
    [][\A i \in 1..Len(tickets) : IsPrefix(tickets[i].comments, tickets'[i].comments)]_vars

\* C14: createdBy of a new ticket is the id of the principal of the create
\* request, and no step changes the createdBy of a ticket
C14_CreatedByFixed ==
    [][/\ \A i \in 1..Len(tickets) : tickets'[i].createdBy = tickets[i].createdBy
       /\ \A r \in Slots :
            (reqs[r].pc = "create" /\ Len(tickets') > Len(tickets)) =>
               tickets'[Len(tickets')].createdBy = ObjectId(reqs[r].user)
      ]_vars

\* C15: a step that changes the assignedTo of a ticket is the write of an
\* update requested by an agent or an admin
C15_AssignedToByStaff ==
    [][\A i \in 1..Len(tickets) :
         tickets'[i].assignedTo # tickets[i].assignedTo =>
            \E r \in Slots :
                /\ Writes(r) /\ reqs[r].path[1] = tickets[i]._id
                /\ Role(reqs[r].user) \in {"agent", "admin"}
      ]_vars

-----------------------------------------------------------------------------
(* The frame of a comment *)

\* C13: the save of a comment request changes only the comments of its ticket:
\* status, resolvedAt, resolutionTime and every other field of the ticket are
\* after the save what the store held immediately before it, whatever the copy
\* the request loaded, and no other ticket changes
C13_CommentChangesOnlyComments ==
    [][\A r \in Slots :
         Saves(r) =>
            LET i == IndexOf(reqs[r].path[1])
            IN  /\ tickets'[i].status = tickets[i].status
                /\ tickets'[i].resolvedAt = tickets[i].resolvedAt
                /\ tickets'[i].resolutionTime = tickets[i].resolutionTime
                /\ tickets' = [tickets EXCEPT ![i].comments = tickets'[i].comments]
      ]_vars

\* slot 2 loaded the ticket while it was open and without a comment; the update
\* of slot 1 resolved it before the comment of slot 2 was saved (its response
\* shows no comment); after the save the ticket is resolved and has the comment
C13_Witness ==
    /\ MaxReq >= 2
    /\ reqs[2].op = "addComment" /\ reqs[2].pc = "reread"
    /\ reqs[2].ticket[1].status = "open" /\ Len(reqs[2].ticket[1].comments) = 1
    /\ reqs[1].op = "updateTicket" /\ reqs[1].pc = "done" /\ reqs[1].res = 200
    /\ reqs[1].out[1].status = "resolved" /\ reqs[1].out[1].comments = <<>>
    /\ LET t == FindById(reqs[2].path[1])[1]
       IN  /\ t.status = "resolved" /\ t.resolvedAt # None /\ t.resolutionTime # None
           /\ t.comments = <<CommentOf(reqs[2])>>

-----------------------------------------------------------------------------
(* Creation *)

\* the draft of a create request lacks one of the four required fields
Incomplete(body) ==
    \E f \in {"title", "description", "category", "priority"} : body[f] = ""

\* C16: the ticket a create inserts is open, has no resolvedAt, no
\* resolutionTime and no assignee, is created by the requesting principal, and
\* its slaDeadline is its createdAt plus 24 hours; a create request whose draft
\* lacks a required field is answered 400 and inserts nothing
C16_CreateDefaults ==
    [][\A r \in Slots :
         (reqs[r].op = "createTicket" /\ reqs'[r] # reqs[r]) =>
            /\ Len(tickets') > Len(tickets) =>
                  LET t == tickets'[Len(tickets')]
                  IN  /\ t.status = "open"
                      /\ t.resolvedAt = None /\ t.resolutionTime = None
                      /\ t.assignedTo = None
                      /\ t.createdBy = ObjectId(reqs[r].user)
                      /\ t.slaDeadline = t.createdAt + 24 * 60 * 60 * 1000
            /\ (reqs[r].pc = "run" /\ Incomplete(reqs[r].body)) =>
                  /\ reqs'[r].pc = "done" /\ reqs'[r].res = 400
                  /\ tickets' = tickets
      ]_vars

-----------------------------------------------------------------------------
(* Resolution *)

\* n is d / 60000 rounded to the nearest integer, halves upwards
IsRoundedMinutes(n, d) == 60000 * n - 30000 <= d /\ d < 60000 * n + 30000

\* C18: the write of an update that sets status to resolved on a ticket that is
\* not resolved leaves the ticket with a resolvedAt that is a time of the
\* request, and with resolutionTime = round((resolvedAt - createdAt) / 60000)
\* for that stored resolvedAt
C18_ResolutionFromResolvedAt ==
    [][\A r \in Slots :
         (Writes(r) /\ Has(reqs[r].body, "status") /\ reqs[r].body.status = "resolved"
                    /\ tickets[IndexOf(reqs[r].path[1])].status # "resolved") =>
            LET t == tickets'[IndexOf(reqs[r].path[1])]
            IN  /\ t.status = "resolved"
                /\ t.resolvedAt # None /\ t.resolutionTime # None
                /\ t.createdAt <= t.resolvedAt[1] /\ t.resolvedAt[1] <= now
                /\ IsRoundedMinutes(t.resolutionTime[1], t.resolvedAt[1] - t.createdAt)
      ]_vars

-----------------------------------------------------------------------------
(* SLA status *)

\* the SLA status of the specification for a status, a deadline and a time
SlaRule(status, slaDeadline, at) ==
    IF status \in {"resolved", "closed"} THEN "completed"
    ELSE IF slaDeadline - at < 0 THEN "breached"
    ELSE IF slaDeadline - at < 2 * 60 * 60 * 1000 THEN "warning"
    ELSE "normal"

\* the tickets whose SLA status by the rule is st
WithSla(st) ==
    {i \in 1..Len(tickets) : SlaRule(tickets[i].status, tickets[i].slaDeadline, now) = st}

\* C17: at every time, the slaStatus of every ticket is completed if the ticket
\* is resolved or closed, otherwise breached if the deadline is past, otherwise
\* warning if less than 2 hours remain, otherwise normal; and the SLA breakdown
\* of a report counts the tickets by the same rule at the time of its last query
C17_SlaStatusRule ==
    /\ [](\A i \in 1..Len(tickets) :
             SlaStatus(tickets[i]) = SlaRule(tickets[i].status, tickets[i].slaDeadline, now))
    /\ [][\A r \in Slots :
            (StatsSteps(r) /\ reqs[r].step + 1 = StatsQueries /\ Role(reqs[r].user) = "admin") =>
               reqs'[r].out.slaStatus =
                  [ breached |-> Cardinality(WithSla("breached")),
                    warning |-> Cardinality(WithSla("warning")),
                    normal |-> Cardinality(WithSla("normal")) ]
         ]_vars

\* a ticket created at time 0 and still open is in warning 22.5 hours later,
\* and a report made at that time counts it so
C17_Witness ==
    /\ now = 45 * HalfHourMs
    /\ Len(tickets) >= 1
    /\ tickets[1].status = "open" /\ tickets[1].createdAt = 0
    /\ SlaStatus(tickets[1]) = "warning"
    /\ Reported(1) /\ reqs[1].out.slaStatus.warning = 1

-----------------------------------------------------------------------------
(* Average resolution time *)

\* the tickets of the scope of u that count for the average
Qualifying(u) ==
    {i \in WithStatus(Scope(u), "resolved") :
        tickets[i].resolutionTime # None /\ tickets[i].resolutionTime[1] > 0}

\* the fields a report takes from its queries 1, 2 and 6 are those of f
\* for the scope of the principal in the store as the query reads it
ReportSteps(f(_, _)) ==
    \A r \in Slots :
        StatsSteps(r) =>
            LET u == reqs[r].user
                k == reqs[r].step + 1
                o == reqs'[r].out
            IN  /\ k = 1 => o.totalTickets = Cardinality(Scope(u))
                /\ k = 2 => o.openTickets = Cardinality(WithStatus(Scope(u), "open"))
                /\ k = 6 => f(o.avgResolutionTime, Qualifying(u))

\* avg is the mean of resolutionTime over the tickets Q, 0 when Q is empty
IsMean(avg, Q) ==
    IF Q = {} THEN avg = 0 ELSE avg * Cardinality(Q) = SumResolutionTime(Q)

\* avg is the mean of resolutionTime over the tickets Q rounded to the nearest
\* integer, halves upwards, 0 when Q is empty
IsRoundedMean(avg, Q) ==
    LET n == Cardinality(Q)
    IN  IF Q = {} THEN avg = 0
        ELSE /\ 2 * n * avg - n <= 2 * SumResolutionTime(Q)
             /\ 2 * SumResolutionTime(Q) < 2 * n * avg + n

\* C19 as the specification states it: avgResolutionTime of a report is the
\* mean of resolutionTime over the qualifying tickets of its scope, 0 when
\* there is none, with totalTickets and openTickets counted over the scope
C19_AvgIsMean == [][ReportSteps(IsMean)]_vars

\* C19, amended: avgResolutionTime of a report is the mean of resolutionTime
\* over the qualifying tickets of its scope rounded to the nearest integer,
\* halves upwards, and 0 when there is none, with totalTickets and openTickets
\* counted over the scope
C19_AvgIsRoundedMean == [][ReportSteps(IsRoundedMean)]_vars

\* scenario E: agent g1 has three assigned tickets, one resolved in 30 minutes
\* and two open, and its report has avgResolutionTime 30, 3 tickets, 2 open
C19_Witness ==
    /\ Reported(1) /\ reqs[1].user = "g1"
    /\ Cardinality(Scope("g1")) = 3
    /\ Cardinality(WithStatus(Scope("g1"), "open")) = 2
    /\ \E i \in Scope("g1") : tickets[i].status = "resolved" /\ tickets[i].resolutionTime = Some(30)
    /\ reqs[1].out.avgResolutionTime = 30
    /\ reqs[1].out.totalTickets = 3 /\ reqs[1].out.openTickets = 2

-----------------------------------------------------------------------------
(* The status of a ticket *)

\* C21: the status of every stored ticket is always one of open, pending,
\* resolved, closed; the write of an update whose body carries another status
\* is answered with an error and changes nothing, and the write of one that
\* carries one of the four is answered 200 and sets it, whatever the status was
C21_StatusInEnum ==
    /\ [](\A i \in 1..Len(tickets) : tickets[i].status \in StatusEnum)
    /\ [][\A r \in Slots :
            (Writes(r) /\ Has(reqs[r].body, "status")) =>
               IF reqs[r].body.status \in StatusEnum
               THEN /\ reqs'[r].pc = "done" /\ reqs'[r].res = 200
                    /\ tickets'[IndexOf(reqs[r].path[1])].status = reqs[r].body.status
               ELSE /\ reqs'[r].pc = "done" /\ reqs'[r].res \in Errors
                    /\ tickets' = tickets
         ]_vars

====
